---------------------------- MODULE Spec2Model ----------------------------
(***************************************************************************)
(* Cafe ordering backend (server/index.js) and the kitchen dashboard that  *)
(* drives it.  The server keeps two in-memory arrays, `orders` and         *)
(* `bills`.  Without the document store no handler awaits, so every        *)
(* Express handler runs to completion before the next one starts and one   *)
(* handler is one action; the server with the document store, whose        *)
(* writing handlers await their shadow write, CustomerApp, and the tabs   *)
(* of one browser with their localStorage markers have their own sections  *)
(* below.                                                                  *)
(*                                                                         *)
(* JavaScript values are encoded as follows.  An optional field of a JSON  *)
(* body is a sequence of length at most one: <<>> when the field is        *)
(* missing, <<v>> when it carries v.  The `items` field is a record with   *)
(* kind "undefined" (missing), "object" (a truthy value that is not an     *)
(* array) or "array" (elems holds the elements).  The id `ORD-${t}` is the *)
(* pair <<"ORD", t>> and `BILL-${t}` the pair <<"BILL", t>>.               *)
(***************************************************************************)
EXTENDS Integers, Sequences, FiniteSets, TLC

VARIABLES
    orders,     \* server: const orders = []
    bills,      \* server: const bills = []
    clock,      \* what Date.now() returns
    last,       \* the most recent request/response exchange of a direct API call
    view,       \* KitchenDashboard: const [orders, setOrders] = useState([]), per dashboard
    poll,       \* KitchenDashboard: the loadOrders call in flight, per dashboard
    task,       \* KitchenDashboard: the click handlers in progress, per dashboard
    billedFor,  \* history: for each bill, the position in orders of the order whose
                \* Generate Bill button made it (0: none); bills carry no order id
    boot,       \* server: the process from its start to listening (or its exit)
    mongo,      \* the external document store: collections "orders" and "bills"
    inflight,   \* server: handlers suspended at the await of their shadow write
    cust,       \* CustomerApp: its React state, its effects, its fetches and timers
    browser     \* the browser: localStorage's markers, the storage events not yet
                \* dispatched, and what the tabs of the origin show and await

kitchen == <<view, poll, task>>
rest == <<boot, mongo, inflight, cust, browser>>
vars == <<orders, bills, clock, last, view, poll, task, billedFor, boot, mongo, inflight, cust,
          browser>>

----------------------------------------------------------------------------
(* Bounds of the model *)

MaxOrders == 2
MaxBills == 2
MaxClock == 1
MaxSeated == 1
MaxPrice == 10
MaxQty == 3
MaxItems == 2
MaxInFlight == 1
MaxShadowed == 1
MaxChecks == 2

----------------------------------------------------------------------------
(* JavaScript helpers *)

None == <<>>
Some(v) == <<v>>

\* `x || d` for a numeric optional: undefined and 0 are falsy
OrNum(x, d) == IF x = None \/ x[1] = 0 THEN d ELSE x[1]

\* `x || d` for a string optional: undefined and "" are falsy
OrStr(x, d) == IF x = None \/ x[1] = "" THEN d ELSE x[1]

\* tableNumber || null  (null is None)
OrNull(x) == IF x = None \/ x[1] = 0 THEN None ELSE x

\* NoItems without the length test: !items || !Array.isArray(items)
NoItemsAcceptsEmpty(items) ==
    \/ items.kind = "undefined"
    \/ items.kind # "array"

\* !items || !Array.isArray(items) || items.length === 0
NoItems(items) ==
    \/ items.kind = "undefined"
    \/ items.kind # "array"
    \/ Len(items.elems) = 0

\* LineAmount that forgets the quantity
LineAmountPriceOnly(it) == OrNum(it.price, 0)

\* (it.price || 0) * (it.quantity || 1)
LineAmount(it) == OrNum(it.price, 0) * OrNum(it.quantity, 1)

\* items.reduce((s, it) => s + (it.price || 0) * (it.quantity || 1), 0)
RECURSIVE SumItems(_)
SumItems(elems) ==
    IF elems = <<>> THEN 0
    ELSE LineAmount(Head(elems)) + SumItems(Tail(elems))

\* Math.round(x) of the non-negative rational num/100: floor(x + 0.5)
RoundPercent(num) == (num + 50) \div 100

OrdId(t) == <<"ORD", t>>
BillId(t) == <<"BILL", t>>


----------------------------------------------------------------------------
(* Request bodies the clients send *)

Lifecycle == {"PENDING", "PREPARING", "READY", "BILL_REQUESTED", "COMPLETED"}

Undefined == [kind |-> "undefined", elems |-> <<>>]
NotArray == [kind |-> "object", elems |-> <<>>]
Arr(elems) == [kind |-> "array", elems |-> elems]

Tea(q) == [id |-> "tea-1", name |-> "Masala Chai", price |-> Some(30), quantity |-> Some(q)]
Water == [id |-> "water-1", name |-> "Water", price |-> None, quantity |-> Some(0)]

\* {tableNumber: 5, customerName: "Ann", items: [tea x 2]}
AnnBody ==
    [tableNumber |-> Some(5), customerName |-> Some("Ann"), items |-> Arr(<<Tea(2)>>),
     totalAmount |-> None, status |-> None, timestamp |-> None]

\* a body that also carries status, timestamp and a total of the client's own
EveBody ==
    [tableNumber |-> Some(7), customerName |-> Some("Eve"), items |-> Arr(<<Tea(1)>>),
     totalAmount |-> Some(75), status |-> Some("COMPLETED"), timestamp |-> Some(99)]

\* a body without table or name, with a total of 0
GuestBody ==
    [tableNumber |-> None, customerName |-> None, items |-> Arr(<<Tea(1), Water>>),
     totalAmount |-> Some(0), status |-> Some("READY"), timestamp |-> None]

OrderBodies ==
    {AnnBody, EveBody, GuestBody}
    \cup {[EveBody EXCEPT !.items = i] : i \in {Undefined, NotArray, Arr(<<>>)}}

PatchStatuses == {None, Some("")} \cup {Some(s) : s \in Lifecycle \cup {"CANCELLED"}}

PatchIds == {OrdId(t) : t \in 0..MaxClock} \cup {OrdId(-1)}

----------------------------------------------------------------------------
(* The server's handlers, as functions of the store *)

\* NewOrder that lets the body's own status through: { ...req.body, id, createdAt }
NewOrderKeepsStatus(body, now) ==
    [id |-> OrdId(now),
     tableNumber |-> OrNull(body.tableNumber),
     customerName |-> OrStr(body.customerName, "Guest"),
     items |-> body.items.elems,
     totalAmount |-> OrNum(body.totalAmount, SumItems(body.items.elems)),
     status |-> OrStr(body.status, "PENDING"),
     createdAt |-> now]

\* The order POST /orders builds.  now is Date.now(): the handler reads it
\* for the id and again for createdAt, here within the same millisecond.
NewOrder(body, now) ==
    [id |-> OrdId(now),
     tableNumber |-> OrNull(body.tableNumber),
     customerName |-> OrStr(body.customerName, "Guest"),
     items |-> body.items.elems,
     totalAmount |-> OrNum(body.totalAmount, SumItems(body.items.elems)),
     status |-> "PENDING",
     createdAt |-> now]

\* orders.findIndex((o) => o.id === id); 0 stands for -1
RECURSIVE FindFrom(_, _, _)
FindFrom(os, id, i) ==
    IF i > Len(os) THEN 0
    ELSE IF os[i].id = id THEN i
    ELSE FindFrom(os, id, i + 1)

FindIndex(os, id) == FindFrom(os, id, 1)

\* SetStatus that treats COMPLETED as final: a completed order keeps its status
SetStatusCompletedIsFinal(os, idx, status) ==
    IF status = None \/ status[1] = "" \/ os[idx].status = "COMPLETED" THEN os
    ELSE [os EXCEPT ![idx].status = status[1]]

\* if (status) orders[idx].status = status
SetStatus(os, idx, status) ==
    IF status = None \/ status[1] = "" THEN os
    ELSE [os EXCEPT ![idx].status = status[1]]

\* POST /orders
PostOrdersResult(os, body, now) ==
    IF NoItems(body.items)
    THEN [orders |-> os, code |-> 400,
          resp |-> [success |-> FALSE, message |-> "No items in order"]]
    ELSE [orders |-> Append(os, NewOrder(body, now)), code |-> 200,
          resp |-> [success |-> TRUE, orderId |-> NewOrder(body, now).id]]

\* PATCH /orders/:id without the 404 for an unknown id
PatchOrderNoLookupCheck(os, id, status) ==
    LET idx == FindIndex(os, id) IN
    IF idx = 0
    THEN [orders |-> os, code |-> 200, resp |-> [success |-> TRUE]]
    ELSE LET os2 == SetStatus(os, idx, status) IN
         [orders |-> os2, code |-> 200,
          resp |-> [success |-> TRUE, order |-> os2[idx]]]

\* PATCH /orders/:id that takes an order set to COMPLETED out of the array
PatchOrderRemovesCompleted(os, id, status) ==
    LET idx == FindIndex(os, id) IN
    IF idx = 0
    THEN [orders |-> os, code |-> 404,
          resp |-> [success |-> FALSE, message |-> "Order not found"]]
    ELSE LET os2 == SetStatus(os, idx, status) IN
         [orders |-> IF os2[idx].status = "COMPLETED"
                     THEN SubSeq(os2, 1, idx - 1) \o SubSeq(os2, idx + 1, Len(os2))
                     ELSE os2,
          code |-> 200,
          resp |-> [success |-> TRUE, order |-> os2[idx]]]

\* PATCH /orders/:id
PatchOrderResult(os, id, status) ==
    LET idx == FindIndex(os, id) IN
    IF idx = 0
    THEN [orders |-> os, code |-> 404,
          resp |-> [success |-> FALSE, message |-> "Order not found"]]
    ELSE LET os2 == SetStatus(os, idx, status) IN
         [orders |-> os2, code |-> 200,
          resp |-> [success |-> TRUE, order |-> os2[idx]]]

\* useMongo && mongoDb: both are set by the connect promise's then
UseMongo(b) == b.conn = "connected"

\* GET /orders/:id.  With the document store in use the handler answers from
\* findOne({ _id: id }) and falls back to the array only when findOne throws
\* (dbOk FALSE); a document is the order it was written from, its _id being
\* the order's id.
GetOrderResult(b, docs, os, id, dbOk) ==
    IF UseMongo(b) /\ dbOk
    THEN LET d == FindIndex(docs, id) IN
         IF d = 0
         THEN [code |-> 404, resp |-> [success |-> FALSE, message |-> "Order not found"]]
         ELSE [code |-> 200, resp |-> docs[d]]
    ELSE LET idx == FindIndex(os, id) IN
         IF idx = 0
         THEN [code |-> 404, resp |-> [success |-> FALSE, message |-> "Order not found"]]
         ELSE [code |-> 200, resp |-> os[idx]]

\* NewBill that rounds once, at the end: Math.round(subtotal * 1.07), with the
\* tax rounded and the service taking the rest
NewBillRoundsTotal(body, now) ==
    LET subtotal == SumItems(body.items.elems)
        tax == RoundPercent(subtotal * 5)
        total == RoundPercent(subtotal * 107)
    IN  [id |-> BillId(now),
         tableNumber |-> OrNull(body.tableNumber),
         customerName |-> OrStr(body.customerName, "Guest"),
         items |-> body.items.elems,
         subtotal |-> subtotal,
         tax |-> tax,
         service |-> total - subtotal - tax,
         total |-> total,
         createdAt |-> now]

\* The bill POST /bills computes
NewBill(body, now) ==
    LET subtotal == SumItems(body.items.elems)
        tax == RoundPercent(subtotal * 5)
        service == RoundPercent(subtotal * 2)
    IN  [id |-> BillId(now),
         tableNumber |-> OrNull(body.tableNumber),
         customerName |-> OrStr(body.customerName, "Guest"),
         items |-> body.items.elems,
         subtotal |-> subtotal,
         tax |-> tax,
         service |-> service,
         total |-> subtotal + tax + service,
         createdAt |-> now]

\* POST /bills
PostBillsResult(bs, body, now) ==
    IF NoItems(body.items)
    THEN [bills |-> bs, code |-> 400,
          resp |-> [success |-> FALSE, message |-> "No items to bill"]]
    ELSE [bills |-> Append(bs, NewBill(body, now)), code |-> 200,
          resp |-> [success |-> TRUE, bill |-> NewBill(body, now)]]

----------------------------------------------------------------------------
(* Direct API calls: one request, handled at once, its response kept in last *)

\* a server started without USE_MONGO: listening, useMongo false
InMemoryServer == [env |-> "off", conn |-> "none", phase |-> "listening"]

\* the document store before anything was written
EmptyStore == [orders |-> <<>>, bills |-> <<>>]

\* useState(""): the orderId of no order
NoOrder == <<>>

\* CustomerApp as mounted: view "welcome", no order, no effect polling, the
\* form empty (a string of the form is the sequence of its characters), the
\* cart empty, no active order recorded
Welcome ==
    [view |-> "welcome", orderId |-> NoOrder, pollingStatus |-> None,
     polling |-> FALSE, checks |-> {}, timers |-> {},
     menuIv |-> FALSE, menuFetch |-> TRUE,
     tableNumber |-> <<>>, customerName |-> <<>>, cart |-> <<>>, activeOrders |-> {}]

Kitchens == {"k1"}
Slots == {1, 2}

\* the tabs of the origin: two kitchen dashboards, the first of them the one
\* that takes the orders, and the customer's tab
KitchenTabs == {"k1", "k2"}
CustomerTab == "c"
AllTabs == KitchenTabs \cup {CustomerTab}

MarkerKeys == {"menu-updated", "reports-updated"}

\* the ids of the menu's items
CatalogIds == {"tea-1"}

\* the tabs as opened: no marker written, every dashboard on its Orders tab
\* (Tabs defaultValue="orders"), no menu handler and no fetch in progress
Opened ==
    [storage |-> [key \in MarkerKeys |-> None],
     events |-> {},
     tab |-> [k \in KitchenTabs |-> "orders"],
     handler |-> [k \in KitchenTabs |-> [op |-> "idle"]],
     fetches |-> {}]

Idle == [op |-> "idle"]

Init ==
    /\ orders = <<>>
    /\ bills = <<>>
    /\ clock = 0
    /\ last = [op |-> "none"]
    /\ view = [k \in Kitchens |-> <<>>]
    /\ poll = [k \in Kitchens |-> Idle]
    /\ task = [k \in Kitchens |-> [s \in Slots |-> Idle]]
    /\ billedFor = <<>>
    /\ boot = InMemoryServer
    /\ mongo = EmptyStore
    /\ inflight = <<>>
    /\ cust = Welcome
    /\ browser = Opened

Tick ==
    /\ clock < MaxClock
    /\ clock' = clock + 1
    /\ UNCHANGED <<rest, orders, bills, last, kitchen, billedFor>>

PostOrders(body) ==
    LET r == PostOrdersResult(orders, body, clock) IN
    /\ Len(r.orders) <= MaxOrders
    /\ orders' = r.orders
    /\ last' = [op |-> "POST /orders", req |-> body, code |-> r.code, resp |-> r.resp]
    /\ UNCHANGED <<rest, bills, clock, kitchen, billedFor>>

PatchOrder(id, status) ==
    LET r == PatchOrderResult(orders, id, status) IN
    /\ orders' = r.orders
    /\ last' = [op |-> "PATCH /orders/:id", req |-> [id |-> id, status |-> status],
                code |-> r.code, resp |-> r.resp]
    /\ UNCHANGED <<rest, bills, clock, kitchen, billedFor>>

PostBills(body) ==
    LET r == PostBillsResult(bills, body, clock) IN
    /\ Len(r.bills) <= MaxBills
    /\ bills' = r.bills
    /\ billedFor' = IF r.code = 200 THEN Append(billedFor, 0) ELSE billedFor
    /\ last' = [op |-> "POST /bills", req |-> body, code |-> r.code, resp |-> r.resp]
    /\ UNCHANGED <<rest, orders, clock, kitchen>>

\* The order API under every request body and every status PATCH
Next ==
    \/ Tick
    \/ \E body \in OrderBodies : PostOrders(body)
    \/ \E id \in PatchIds, status \in PatchStatuses : PatchOrder(id, status)

Spec == Init /\ [][Next]_vars

----------------------------------------------------------------------------
(* Claims about the order API *)

LastOrder(os) == os[Len(os)]

\* A step in which the server handled a direct request of kind op: every such
\* step writes last, and one that writes the same exchange again is seen by
\* what it added to the store.
Handled(op) ==
    /\ last'.op = op
    /\ last' # last \/ orders' # orders \/ bills' # bills

\* C1: every order POST /orders adds enters the store with status PENDING and
\* with the id and createdAt the server takes from its own clock, whatever
\* status or timestamp the request body carries; the orders already stored
\* stay as they were.
C1_CreatedPending ==
    [][Handled("POST /orders") /\ orders' # orders =>
          /\ Len(orders') = Len(orders) + 1
          /\ SubSeq(orders', 1, Len(orders)) = orders
          /\ LastOrder(orders').status = "PENDING"
          /\ LastOrder(orders').id = OrdId(clock)
          /\ LastOrder(orders').createdAt = clock
          /\ last'.resp.orderId = LastOrder(orders').id]_vars

\* C1 witness: an order was just created from a body that carried status
\* COMPLETED and a timestamp of its own.
C1_Witness ==
    /\ last.op = "POST /orders"
    /\ last.code = 200
    /\ last.req.status = Some("COMPLETED")
    /\ last.req.timestamp = Some(99)
    /\ LastOrder(orders).status = "PENDING"

LegalEdges ==
    {<<"PENDING", "PREPARING">>, <<"PREPARING", "READY">>, <<"READY", "COMPLETED">>,
     <<"READY", "BILL_REQUESTED">>, <<"BILL_REQUESTED", "COMPLETED">>}

\* C2: an order's status only ever changes along PENDING -> PREPARING ->
\* READY -> COMPLETED or READY -> BILL_REQUESTED -> COMPLETED; a PATCH whose
\* status skips a state or moves backward is rejected and leaves the order
\* unchanged.
C2_OnlyLegalTransitions ==
    [][/\ \A i \in 1..Len(orders) :
            orders'[i].status # orders[i].status =>
                <<orders[i].status, orders'[i].status>> \in LegalEdges
       /\ Handled("PATCH /orders/:id") =>
            \A i \in 1..Len(orders) :
                /\ orders[i].id = last'.req.id
                /\ last'.req.status # None
                /\ last'.req.status[1] # orders[i].status
                /\ <<orders[i].status, last'.req.status[1]>> \notin LegalEdges
                => last'.code # 200 /\ orders' = orders]_vars

\* the claim's reading of "missing, not an array, or an empty array"
MissingOrEmpty(items) ==
    \/ items.kind = "undefined"
    \/ items.kind = "object"
    \/ items.kind = "array" /\ items.elems = <<>>

\* C9: POST /orders whose items field is missing, is not an array or is an
\* empty array answers 400 and changes neither the orders nor the bills.
C9_NoItemsRejected ==
    [][Handled("POST /orders") /\ MissingOrEmpty(last'.req.items) =>
          /\ last'.code = 400
          /\ last'.resp.success = FALSE
          /\ orders' = orders
          /\ bills' = bills]_vars

\* C9 witness: a request with an empty items array was refused while the
\* store already held an order.
C9_Witness ==
    /\ last.op = "POST /orders"
    /\ last.req.items = Arr(<<>>)
    /\ last.code = 400
    /\ Len(orders) > 0

HasId(os, id) == \E i \in 1..Len(os) : os[i].id = id

\* C10: PATCH /orders/:id for an id that no stored order has answers 404 and
\* leaves every stored order unchanged.
C10_UnknownIdNotFound ==
    [][Handled("PATCH /orders/:id") /\ ~HasId(orders, last'.req.id) =>
          /\ last'.code = 404
          /\ last'.resp.success = FALSE
          /\ orders' = orders]_vars

\* C10 witness: a status PATCH for an id of no stored order was answered 404
\* while the store held orders under other ids.
C10_Witness ==
    /\ last.op = "PATCH /orders/:id"
    /\ last.code = 404
    /\ last.req.status = Some("READY")
    /\ Len(orders) > 0
    /\ ~HasId(orders, last.req.id)

\* what GET /orders/:id answers in the current state
GetNow(id) == GetOrderResult(boot, mongo.orders, orders, id, TRUE)

\* what it answers once the step is taken
GetAfter(id) == GetOrderResult(boot', mongo'.orders, orders', id, TRUE)

\* C12: round trip: GET /orders/:id with the orderId a successful POST
\* /orders returned yields the items and the totalAmount that were submitted,
\* for every submitted totalAmount (0 included) and also when another order
\* was created in the same millisecond; a status PATCH changes neither.
C12_RoundTrip ==
    [][/\ Handled("POST /orders") /\ last'.code = 200 =>
            /\ GetAfter(last'.resp.orderId).code = 200
            /\ GetAfter(last'.resp.orderId).resp.items = last'.req.items.elems
            /\ last'.req.totalAmount # None =>
                   GetAfter(last'.resp.orderId).resp.totalAmount = last'.req.totalAmount[1]
       /\ Handled("PATCH /orders/:id") =>
            \A id \in PatchIds :
                GetNow(id).code = 200 =>
                    /\ GetAfter(id).code = 200
                    /\ GetAfter(id).resp.items = GetNow(id).resp.items
                    /\ GetAfter(id).resp.totalAmount = GetNow(id).resp.totalAmount]_vars

\* C15: no two orders in the store share an id, also when several POST
\* /orders are handled within the same clock millisecond.
C15_UniqueOrderIds ==
    \A i \in 1..Len(orders), j \in 1..Len(orders) :
        i # j => orders[i].id # orders[j].id

\* C18: PATCH /orders/:id validates no transition: for an existing order,
\* whatever its status, a PATCH with a non-empty status answers 200 and the
\* order's status is exactly that value.
C18_AnyStatusWritten ==
    [][/\ Handled("PATCH /orders/:id")
       /\ HasId(orders, last'.req.id)
       /\ last'.req.status # None
       /\ last'.req.status[1] # ""
       => /\ last'.code = 200
          /\ last'.resp.success = TRUE
          /\ orders'[FindIndex(orders, last'.req.id)].status = last'.req.status[1]
          /\ last'.resp.order = orders'[FindIndex(orders, last'.req.id)]
          /\ Len(orders') = Len(orders)]_vars

\* C18 witness: with two orders stored, a PATCH just wrote CANCELLED, a
\* status outside the lifecycle, and answered 200 with the order so
\* marked.
C18_Witness ==
    /\ last.op = "PATCH /orders/:id"
    /\ last.code = 200
    /\ last.req.status = Some("CANCELLED")
    /\ last.resp.order.status = "CANCELLED"
    /\ Len(orders) = 2
    /\ orders[FindIndex(orders, last.req.id)].status = "CANCELLED"

----------------------------------------------------------------------------
(* The bill computation on its own: one POST /bills against a fresh server,  *)
(* for every item list within the bounds                                     *)

CalcPrices == {None} \cup {Some(p) : p \in 0..MaxPrice}
CalcQuantities == {Some(q) : q \in 0..MaxQty}

CalcItem == [id : {"tea-1"}, name : {"Masala Chai"}, price : CalcPrices, quantity : CalcQuantities]

CalcItemLists == UNION {[1..n -> CalcItem] : n \in 1..MaxItems}

CalcBodies ==
    {[tableNumber |-> Some(5), customerName |-> Some("Ann"), items |-> Arr(elems)] :
        elems \in CalcItemLists}

NextBill == bills = <<>> /\ \E body \in CalcBodies : PostBills(body)

SpecBill == Init /\ [][NextBill]_vars

\* what the claim calls a valid item sequence: non-empty, every price a
\* non-negative integer, every quantity at least 1
ValidItems(elems) ==
    /\ Len(elems) >= 1
    /\ \A i \in 1..Len(elems) :
          /\ elems[i].price # None /\ elems[i].price[1] >= 0
          /\ elems[i].quantity # None /\ elems[i].quantity[1] >= 1

RECURSIVE ExactSum(_)
ExactSum(elems) ==
    IF elems = <<>> THEN 0
    ELSE Head(elems).price[1] * Head(elems).quantity[1] + ExactSum(Tail(elems))

\* round(s * pct / 100): the integer nearest to it, the upper one at a tie
Nearest(s, pct) == CHOOSE n \in 0..(2 * s) : 100 * n - 50 <= pct * s /\ pct * s < 100 * n + 50

\* C7: for every non-empty item sequence with non-negative prices and
\* quantities >= 1, the bill POST /bills creates has subtotal = sum of
\* price*quantity, tax = round(subtotal*0.05), service = round(subtotal*0.02)
\* and total = subtotal + tax + service, each of tax and service rounded on
\* its own.
C7_BillArithmetic ==
    \A j \in 1..Len(bills) :
        ValidItems(bills[j].items) =>
            /\ bills[j].subtotal = ExactSum(bills[j].items)
            /\ bills[j].tax = Nearest(bills[j].subtotal, 5)
            /\ bills[j].service = Nearest(bills[j].subtotal, 2)
            /\ bills[j].total = bills[j].subtotal + bills[j].tax + bills[j].service
            /\ last.resp.bill = bills[j]

\* C7 witness: a bill over two valid items whose total differs from the
\* subtotal plus 7% rounded once (30 + 2 + 1 = 33, not round(32.1) = 32).
C7_Witness ==
    /\ Len(bills) = 1
    /\ Len(bills[1].items) = 2
    /\ ValidItems(bills[1].items)
    /\ bills[1].subtotal = 30
    /\ bills[1].total = 33
    /\ bills[1].total # Nearest(bills[1].subtotal, 107)

----------------------------------------------------------------------------
(* The total POST /orders computes on its own: one POST /orders without a    *)
(* totalAmount against a fresh server, for every item list within the bounds *)

CalcOrderBodies ==
    {[tableNumber |-> Some(5), customerName |-> Some("Ann"), items |-> Arr(elems),
      totalAmount |-> None, status |-> None, timestamp |-> None] :
        elems \in CalcItemLists}

NextTotal == orders = <<>> /\ \E body \in CalcOrderBodies : PostOrders(body)

SpecTotal == Init /\ [][NextTotal]_vars

\* the sum the claim states: price * quantity, an absent price counting 0
RECURSIVE PriceTimesQuantity(_)
PriceTimesQuantity(elems) ==
    IF elems = <<>> THEN 0
    ELSE (IF Head(elems).price = None THEN 0 ELSE Head(elems).price[1])
             * Head(elems).quantity[1]
         + PriceTimesQuantity(Tail(elems))

\* C19: when POST /orders carries no totalAmount, the stored order's
\* totalAmount is the sum of price*quantity over the submitted items, for
\* every accepted item sequence, items of quantity 0 or without a price
\* included.
C19_ComputedTotal ==
    \A i \in 1..Len(orders) :
        last.op = "POST /orders" /\ last.req.totalAmount = None =>
            orders[i].totalAmount = PriceTimesQuantity(last.req.items.elems)

----------------------------------------------------------------------------
(* The three writing calls of the API together, on a few bodies *)

\* the body generateBillForOrder sends for an order
BillBodyOf(o) ==
    [tableNumber |-> o.tableNumber, customerName |-> Some(o.customerName),
     items |-> Arr(o.items)]

ApiOrderBodies == {AnnBody, GuestBody}
ApiStatuses == {None, Some("READY"), Some("COMPLETED")}
ApiBillBodies == {BillBodyOf(NewOrder(AnnBody, 0))}

NextApi ==
    \/ Tick
    \/ \E body \in ApiOrderBodies : PostOrders(body)
    \/ \E id \in PatchIds, status \in ApiStatuses : PatchOrder(id, status)
    \/ \E body \in ApiBillBodies : PostBills(body)

SpecApi == Init /\ [][NextApi]_vars

\* orders'[i] is orders[i] but for its status
SameButStatus(i) == orders'[i] = [orders[i] EXCEPT !.status = orders'[i].status]

----------------------------------------------------------------------------
(* The scenario of the spec's section 8: a client that creates Ann's order   *)
(* and takes each order it finds PENDING to PREPARING, each PREPARING one to *)
(* READY, and bills a READY one with the order's own items                   *)

ScenAdvance(i) ==
    /\ i \in 1..Len(orders)
    /\ \/ orders[i].status = "PENDING" /\ PatchOrder(orders[i].id, Some("PREPARING"))
       \/ orders[i].status = "PREPARING" /\ PatchOrder(orders[i].id, Some("READY"))

ScenBill(i) ==
    /\ i \in 1..Len(orders)
    /\ orders[i].status = "READY"
    /\ PostBills(BillBodyOf(orders[i]))

NextScenario ==
    \/ Tick
    \/ PostOrders(AnnBody)
    \/ \E i \in 1..MaxOrders : ScenAdvance(i)
    \/ \E i \in 1..MaxOrders : ScenBill(i)

SpecScenario == Init /\ [][NextScenario]_vars

\* C8: the order created for table 5, customer Ann, one item of price 30 and
\* quantity 2 and no totalAmount has totalAmount 60 and starts PENDING; the
\* bill POST /bills makes from the same items once the order was patched to
\* PREPARING and to READY has subtotal 60, tax 3, service 1 and total 64.
C8_Scenario ==
    /\ \A i \in 1..Len(orders) :
          /\ orders[i].tableNumber = Some(5)
          /\ orders[i].customerName = "Ann"
          /\ orders[i].items = <<Tea(2)>>
          /\ orders[i].totalAmount = 60
    /\ last.op = "POST /orders" => LastOrder(orders).status = "PENDING"
    /\ \A j \in 1..Len(bills) :
          /\ bills[j].items = <<Tea(2)>>
          /\ bills[j].subtotal = 60
          /\ bills[j].tax = 3
          /\ bills[j].service = 1
          /\ bills[j].total = 64

\* C8 witness: Ann's order is READY and the bill for its items was just made.
C8_Witness ==
    /\ last.op = "POST /bills"
    /\ last.code = 200
    /\ last.resp.bill.total = 64
    /\ \E i \in 1..Len(orders) : orders[i].status = "READY" /\ orders[i].totalAmount = 60

----------------------------------------------------------------------------
(* The kitchen dashboard against the server.  A fetch is one step: the       *)
(* request is handled by the server when net is TRUE and is lost (fetch      *)
(* throws) when net is FALSE; what the client does after the await is a      *)
(* later step.  A dashboard has one loadOrders call in flight at a time and  *)
(* as many click handlers in progress as there are Slots.                    *)

\* what CustomerApp's handlePlaceOrder sends for Ann's cart
CartBody ==
    [tableNumber |-> Some(5), customerName |-> Some("Ann"), items |-> Arr(<<Tea(2)>>),
     totalAmount |-> Some(60), status |-> Some("PENDING"), timestamp |-> Some(clock)]

\* CustomerApp: handlePlaceOrder's POST /orders
PlaceOrder ==
    /\ Len(orders) < MaxSeated
    /\ orders' = PostOrdersResult(orders, CartBody, clock).orders
    /\ UNCHANGED <<rest, bills, clock, last, kitchen, billedFor>>

\* fetchLiveOrders: GET /orders answers the orders array; any failure gives []
FetchLiveOrders(net) == IF net THEN orders ELSE <<>>

\* loadOrders up to its await (the mount effect, the 5 s interval, a refresh)
KLoad(k, net) ==
    /\ poll[k] = Idle
    /\ poll' = [poll EXCEPT ![k] =
                   [op |-> "load", ok |-> net, data |-> FetchLiveOrders(net)]]
    /\ UNCHANGED <<rest, orders, bills, clock, last, view, task, billedFor>>

\* loadOrders after its await: setOrders(fetchedOrders)
KLoadDone(k) ==
    /\ poll[k] # Idle
    /\ view' = [view EXCEPT ![k] = poll[k].data]
    /\ poll' = [poll EXCEPT ![k] = Idle]
    /\ UNCHANGED <<rest, orders, bills, clock, last, task, billedFor>>

\* getActionButton: the status the button of an order sets ("" : no button)
ButtonStatus(status) ==
    CASE status = "PENDING" -> "PREPARING"
      [] status = "PREPARING" -> "READY"
      [] status = "READY" -> "COMPLETED"
      [] status = "BILL_REQUESTED" -> "COMPLETED"
      [] OTHER -> ""

\* a click handler starts in the first slot that is free
FreeSlot(k, s) ==
    /\ task[k][s] = Idle
    /\ \A s2 \in Slots : s2 < s => task[k][s2] # Idle

\* updateOrderStatus: the PATCH, handled or lost; its result goes unread
UpdateOrderStatus(os, id, newStatus, net) ==
    IF net THEN PatchOrderResult(os, id, Some(newStatus)).orders ELSE os

\* what updateOrderStatus returns: the answer's json when res.ok, else
\* { success: false }
UpdateOrderStatusReturn(os, id, newStatus, net) ==
    IF net /\ PatchOrderResult(os, id, Some(newStatus)).code = 200
    THEN PatchOrderResult(os, id, Some(newStatus)).resp
    ELSE [success |-> FALSE]

\* handleStatusChange up to its await: the action button of the i-th card
KClickStatus(k, s, i, net) ==
    /\ browser.tab[k] = "orders"
    /\ FreeSlot(k, s)
    /\ i \in 1..Len(view[k])
    /\ ButtonStatus(view[k][i].status) # ""
    /\ orders' = UpdateOrderStatus(orders, view[k][i].id, ButtonStatus(view[k][i].status), net)
    /\ task' = [task EXCEPT ![k][s] =
                   [op |-> "status", id |-> view[k][i].id,
                    newStatus |-> ButtonStatus(view[k][i].status),
                    returned |-> UpdateOrderStatusReturn(orders, view[k][i].id,
                                     ButtonStatus(view[k][i].status), net)]]
    /\ UNCHANGED <<rest, bills, clock, last, view, poll, billedFor>>

\* prevOrders.map((order) => order.id === orderId ? {...order, status: newStatus} : order)
MapStatus(os, id, newStatus) ==
    [i \in 1..Len(os) |-> IF os[i].id = id THEN [os[i] EXCEPT !.status = newStatus] ELSE os[i]]

\* handleStatusChange after its await
KStatusDone(k, s) ==
    /\ task[k][s].op = "status"
    /\ view' = [view EXCEPT ![k] = MapStatus(view[k], task[k][s].id, task[k][s].newStatus)]
    /\ task' = [task EXCEPT ![k][s] = Idle]
    /\ UNCHANGED <<rest, orders, bills, clock, last, poll, billedFor>>

\* generateBillForOrder up to the POST's answer: the Generate Bill button of
\* the i-th card, shown while the card reads READY
KClickBill(k, s, i, net) ==
    /\ browser.tab[k] = "orders"
    /\ FreeSlot(k, s)
    /\ i \in 1..Len(view[k])
    /\ view[k][i].status = "READY"
    /\ LET r == PostBillsResult(bills, BillBodyOf(view[k][i]), clock)
           ok == net /\ r.code = 200
       IN  /\ Len(bills) < MaxBills
           /\ bills' = IF net THEN r.bills ELSE bills
           /\ billedFor' = IF ok THEN Append(billedFor, i) ELSE billedFor
           /\ task' = [task EXCEPT ![k][s] =
                          IF ok
                          THEN [op |-> "bill", idx |-> i, order |-> view[k][i],
                                step |-> "posted", success |-> TRUE]
                          ELSE [op |-> "bill", idx |-> i, order |-> view[k][i],
                                step |-> "returned", success |-> FALSE]]
    /\ UNCHANGED <<rest, orders, clock, last, view, poll>>

\* generateBillForOrder: await updateOrderStatus(order.id, "COMPLETED"), then
\* return { success: true, bill }
KBillPatch(k, s, net) ==
    /\ task[k][s].op = "bill"
    /\ task[k][s].step = "posted"
    /\ orders' = UpdateOrderStatus(orders, task[k][s].order.id, "COMPLETED", net)
    /\ task' = [task EXCEPT ![k][s].step = "returned"]
    /\ UNCHANGED <<rest, bills, clock, last, view, poll, billedFor>>

\* localStorage.setItem(key, Date.now().toString()) that leaves a marker
\* already written as it is
SetItemOnlyOnce(b, from, key, now) ==
    IF b.storage[key] # None THEN b
    ELSE [b EXCEPT !.storage[key] = Some(now),
                   !.events = @ \cup {[from |-> from, key |-> key]}]

\* localStorage.setItem(key, Date.now().toString()) in the tab `from`: the
\* browser queues a storage event for the other tabs of the origin when the
\* value changed, and none when the same value is written again
SetItem(b, from, key, now) ==
    [b EXCEPT !.storage[key] = Some(now),
              !.events = IF b.storage[key] # Some(now)
                         THEN @ \cup {[from |-> from, key |-> key]}
                         ELSE @]

\* the button's handler after generateBillForOrder returned: on success it
\* calls loadOrders (KLoad, which may start at any time), writes the
\* reports-updated marker and alerts
KBillFinish(k, s) ==
    /\ task[k][s].op = "bill"
    /\ task[k][s].step = "returned"
    /\ task' = [task EXCEPT ![k][s] = Idle]
    /\ browser' = IF task[k][s].success
                  THEN SetItem(browser, k, "reports-updated", clock)
                  ELSE browser
    /\ UNCHANGED <<orders, bills, clock, last, view, poll, billedFor,
                   boot, mongo, inflight, cust>>

NextKitchen ==
    \/ Tick
    \/ PlaceOrder
    \/ \E k \in Kitchens, net \in BOOLEAN : KLoad(k, net)
    \/ \E k \in Kitchens : KLoadDone(k)
    \/ \E k \in Kitchens, s \in Slots, i \in 1..MaxSeated, net \in BOOLEAN :
          KClickStatus(k, s, i, net)
    \/ \E k \in Kitchens, s \in Slots : KStatusDone(k, s)
    \/ \E k \in Kitchens, s \in Slots, i \in 1..MaxSeated, net \in BOOLEAN :
          KClickBill(k, s, i, net)
    \/ \E k \in Kitchens, s \in Slots, net \in BOOLEAN : KBillPatch(k, s, net)
    \/ \E k \in Kitchens, s \in Slots : KBillFinish(k, s)

SpecKitchen == Init /\ [][NextKitchen]_vars

----------------------------------------------------------------------------
(* The server from its start, with the document store.  With USE_MONGO=true  *)
(* and a URI the module starts mongoClient.connect() and startServer waits   *)
(* for it, at most 5 s, before it listens.  Once useMongo is set a writing   *)
(* handler pushes to its array, then awaits updateOne(..., {upsert: true})   *)
(* inside a try/catch and answers after it: the handler is two steps, and    *)
(* other handlers run between them.  The store keeps a collection in the     *)
(* order its documents were first inserted.                                  *)

\* the process as node starts it: env "on" is USE_MONGO=true with MONGODB_URI
StartingServer(env) ==
    [env |-> env, conn |-> IF env = "on" THEN "pending" ELSE "none", phase |-> "starting"]

InitMirror ==
    /\ orders = <<>>
    /\ bills = <<>>
    /\ clock = 1
    /\ last = [op |-> "none"]
    /\ view = [k \in Kitchens |-> <<>>]
    /\ poll = [k \in Kitchens |-> Idle]
    /\ task = [k \in Kitchens |-> [s \in Slots |-> Idle]]
    /\ billedFor = <<>>
    /\ boot \in {StartingServer("off"), StartingServer("on")}
    /\ mongo = EmptyStore
    /\ inflight = <<>>
    /\ cust = Welcome
    /\ browser = Opened

MirrorTick ==
    /\ clock <= MaxClock
    /\ clock' = clock + 1
    /\ UNCHANGED <<orders, bills, last, kitchen, billedFor, rest>>

\* mongoClient.connect() resolves: mongoDb = ..., useMongo = true
ConnectResolves ==
    /\ boot.phase = "starting"
    /\ boot.conn = "pending"
    /\ boot' = [boot EXCEPT !.conn = "connected"]
    /\ UNCHANGED <<orders, bills, clock, last, kitchen, billedFor, mongo, inflight, cust, browser>>

\* mongoClient.connect() rejects: the .catch logs a warning, and with it
\* mongoConnectPromise resolves
ConnectRejects ==
    /\ boot.phase = "starting"
    /\ boot.conn = "pending"
    /\ boot' = [boot EXCEPT !.conn = "failed"]
    /\ UNCHANGED <<orders, bills, clock, last, kitchen, billedFor, mongo, inflight, cust, browser>>

\* awaitPromiseWithTimeout's timer fires before mongoConnectPromise settled:
\* reject(new Error('timeout')), caught by startServer, process.exit(1)
GraceTimeout ==
    /\ boot.phase = "starting"
    /\ boot.conn = "pending"
    /\ boot' = [boot EXCEPT !.phase = "exited"]
    /\ UNCHANGED <<orders, bills, clock, last, kitchen, billedFor, mongo, inflight, cust, browser>>

\* startServer past its wait: no wait without mongoConnectPromise, else the
\* promise resolved; server.listen
StartListening ==
    /\ boot.phase = "starting"
    /\ boot.conn # "pending"
    /\ boot' = [boot EXCEPT !.phase = "listening"]
    /\ UNCHANGED <<orders, bills, clock, last, kitchen, billedFor, mongo, inflight, cust, browser>>

\* updateOne({ _id: doc.id }, { $set: doc }, { upsert: true })
Upsert(docs, doc) ==
    IF FindIndex(docs, doc.id) = 0 THEN Append(docs, doc)
    ELSE [docs EXCEPT ![FindIndex(docs, doc.id)] = doc]

\* the answer that fails the request when the shadow write failed
AnswerFailsOnShadowError(h, os, ok) ==
    IF ~ok THEN [code |-> 500, resp |-> [success |-> FALSE, message |-> "Failed to persist"]]
    ELSE CASE h.op = "POST /orders" ->
                [code |-> 200, resp |-> [success |-> TRUE, orderId |-> h.doc.id]]
           [] h.op = "PATCH /orders/:id" ->
                [code |-> 200, resp |-> [success |-> TRUE, order |-> os[h.idx]]]
           [] h.op = "POST /bills" ->
                [code |-> 200, resp |-> [success |-> TRUE, bill |-> h.doc]]

\* the res.json after the try/catch around the shadow write: the catch only
\* logs, so the answer is the same whether the write succeeded (ok) or threw
Answer(h, os, ok) ==
    CASE h.op = "POST /orders" ->
            [code |-> 200, resp |-> [success |-> TRUE, orderId |-> h.doc.id]]
      [] h.op = "PATCH /orders/:id" ->
            [code |-> 200, resp |-> [success |-> TRUE, order |-> os[h.idx]]]
      [] h.op = "POST /bills" ->
            [code |-> 200, resp |-> [success |-> TRUE, bill |-> h.doc]]

\* a handler that reached its await with the document it passed to updateOne
Suspend(h) ==
    /\ Len(inflight) < MaxInFlight
    /\ inflight' = Append(inflight, h)
    /\ last' = last

\* a handler that answers at once
Respond(op, req, code, resp) ==
    /\ inflight' = inflight
    /\ last' = [op |-> op, req |-> req, code |-> code, resp |-> resp, shadow |-> "none"]

\* POST /orders
SrvPostOrders(body) ==
    LET r == PostOrdersResult(orders, body, clock) IN
    /\ boot.phase = "listening"
    /\ Len(r.orders) <= MaxOrders
    /\ orders' = r.orders
    /\ IF r.code = 200 /\ UseMongo(boot)
       THEN Suspend([op |-> "POST /orders", req |-> body, coll |-> "orders",
                     doc |-> NewOrder(body, clock), idx |-> Len(r.orders)])
       ELSE Respond("POST /orders", body, r.code, r.resp)
    /\ UNCHANGED <<bills, clock, kitchen, billedFor, boot, mongo, cust, browser>>

\* PATCH /orders/:id
SrvPatchOrder(id, status) ==
    LET r == PatchOrderResult(orders, id, status) IN
    /\ boot.phase = "listening"
    /\ orders' = r.orders
    /\ IF r.code = 200 /\ UseMongo(boot)
       THEN Suspend([op |-> "PATCH /orders/:id", req |-> [id |-> id, status |-> status],
                     coll |-> "orders", doc |-> r.resp.order, idx |-> FindIndex(orders, id)])
       ELSE Respond("PATCH /orders/:id", [id |-> id, status |-> status], r.code, r.resp)
    /\ UNCHANGED <<bills, clock, kitchen, billedFor, boot, mongo, cust, browser>>

\* POST /bills
SrvPostBills(body) ==
    LET r == PostBillsResult(bills, body, clock) IN
    /\ boot.phase = "listening"
    /\ Len(r.bills) <= MaxBills
    /\ bills' = r.bills
    /\ billedFor' = IF r.code = 200 THEN Append(billedFor, 0) ELSE billedFor
    /\ IF r.code = 200 /\ UseMongo(boot)
       THEN Suspend([op |-> "POST /bills", req |-> body, coll |-> "bills",
                     doc |-> NewBill(body, clock), idx |-> Len(r.bills)])
       ELSE Respond("POST /bills", body, r.code, r.resp)
    /\ UNCHANGED <<orders, clock, kitchen, boot, mongo, cust, browser>>

\* the j-th suspended handler resumes: its updateOne took effect (ok) or threw
ShadowWriteDone(j, ok) ==
    /\ j \in 1..Len(inflight)
    /\ mongo' = IF ~ok THEN mongo
                ELSE IF inflight[j].coll = "orders"
                     THEN [mongo EXCEPT !.orders = Upsert(mongo.orders, inflight[j].doc)]
                     ELSE [mongo EXCEPT !.bills = Upsert(mongo.bills, inflight[j].doc)]
    /\ inflight' = SubSeq(inflight, 1, j - 1) \o SubSeq(inflight, j + 1, Len(inflight))
    /\ last' = [op |-> inflight[j].op, req |-> inflight[j].req,
                code |-> Answer(inflight[j], orders, ok).code,
                resp |-> Answer(inflight[j], orders, ok).resp,
                shadow |-> IF ok THEN "written" ELSE "failed"]
    /\ UNCHANGED <<orders, bills, clock, kitchen, billedFor, boot, cust, browser>>

\* GET /orders/:id
SrvGetOrder(id, dbOk) ==
    LET r == GetOrderResult(boot, mongo.orders, orders, id, dbOk) IN
    /\ boot.phase = "listening"
    /\ last' = [op |-> "GET /orders/:id", req |-> [id |-> id], code |-> r.code,
                resp |-> r.resp, shadow |-> "none"]
    /\ UNCHANGED <<orders, bills, clock, kitchen, billedFor, boot, mongo, inflight, cust, browser>>

\* the documents of find({}).toArray() as GET /orders maps them:
\* createdAt: d.createdAt || d.timestamp || Date.now()
MapDocs(docs, now) ==
    [i \in 1..Len(docs) |-> [docs[i] EXCEPT !.createdAt = OrNum(Some(docs[i].createdAt), now)]]

\* GET /orders: the mapped documents, or the array when find throws (dbOk
\* FALSE) or the store is not in use
GetOrdersResult(b, docs, os, dbOk, now) ==
    IF UseMongo(b) /\ dbOk THEN MapDocs(docs, now) ELSE os

\* loadOrders up to its await, against this server: fetchLiveOrders gives []
\* when the fetch fails, as it does while no server listens
KLoadSrv(k, net, dbOk) ==
    /\ poll[k] = Idle
    /\ poll' = [poll EXCEPT ![k] =
                   [op |-> "load", ok |-> net /\ boot.phase = "listening",
                    data |-> IF net /\ boot.phase = "listening"
                             THEN GetOrdersResult(boot, mongo.orders, orders, dbOk, clock)
                             ELSE <<>>]]
    /\ UNCHANGED <<orders, bills, clock, last, view, task, billedFor, rest>>

MirrorOrderBodies == {AnnBody}
MirrorStatuses == {Some("BILL_REQUESTED")}

\* the writing calls, each array kept to MaxShadowed entries
NextMirror ==
    \/ MirrorTick
    \/ ConnectResolves
    \/ ConnectRejects
    \/ GraceTimeout
    \/ StartListening
    \/ \E body \in MirrorOrderBodies : Len(orders) < MaxShadowed /\ SrvPostOrders(body)
    \/ \E i \in 1..MaxShadowed, status \in MirrorStatuses :
          i <= Len(orders) /\ SrvPatchOrder(orders[i].id, status)
    \/ \E body \in ApiBillBodies : Len(bills) < MaxShadowed /\ SrvPostBills(body)
    \/ \E j \in 1..MaxInFlight, ok \in BOOLEAN : ShadowWriteDone(j, ok)

SpecMirror == InitMirror /\ [][NextMirror]_vars

\* the same server with its readers: a client that asks for stored orders by
\* id, and the kitchen dashboard's poll
NextMirrorRead ==
    \/ MirrorTick
    \/ ConnectResolves
    \/ ConnectRejects
    \/ GraceTimeout
    \/ StartListening
    \/ \E body \in MirrorOrderBodies : SrvPostOrders(body)
    \/ \E i \in 1..MaxOrders, status \in MirrorStatuses :
          i <= Len(orders) /\ SrvPatchOrder(orders[i].id, status)
    \/ \E j \in 1..MaxInFlight, ok \in BOOLEAN : ShadowWriteDone(j, ok)
    \/ \E i \in 1..MaxOrders, dbOk \in BOOLEAN :
          i <= Len(orders) /\ SrvGetOrder(orders[i].id, dbOk)
    \/ \E k \in Kitchens, net \in BOOLEAN, dbOk \in BOOLEAN : KLoadSrv(k, net, dbOk)
    \/ \E k \in Kitchens : KLoadDone(k)

SpecMirrorRead == InitMirror /\ [][NextMirrorRead]_vars

----------------------------------------------------------------------------
(* The kitchen's prioritized list *)

\* a.timestamp - b.timestamp; an order without a timestamp field gives
\* undefined there, the difference is NaN, and sort takes NaN for 0
TimestampDiff(a, b) ==
    IF "timestamp" \in DOMAIN a /\ "timestamp" \in DOMAIN b
    THEN a.timestamp - b.timestamp
    ELSE 0

\* the comparator of sortedOrders
Compare(a, b) ==
    IF a.status = "BILL_REQUESTED" /\ b.status # "BILL_REQUESTED" THEN -1
    ELSE IF b.status = "BILL_REQUESTED" /\ a.status # "BILL_REQUESTED" THEN 1
    ELSE TimestampDiff(a, b)

\* x put into a sorted list behind every element it does not precede
RECURSIVE InsertSorted(_, _)
InsertSorted(sorted, x) ==
    IF sorted = <<>> THEN <<x>>
    ELSE IF Compare(x, Head(sorted)) < 0 THEN <<x>> \o sorted
    ELSE <<Head(sorted)>> \o InsertSorted(Tail(sorted), x)

\* [...orders].sort(comparator): Array.prototype.sort is stable
RECURSIVE SortFrom(_, _)
SortFrom(sorted, os) ==
    IF os = <<>> THEN sorted
    ELSE SortFrom(InsertSorted(sorted, Head(os)), Tail(os))

SortedOrders(os) == SortFrom(<<>>, os)

\* C11: the kitchen's prioritized list, for every polled set of orders, has
\* every BILL_REQUESTED order before every order of another status, and
\* within each of the two groups the orders in ascending createdAt.
C11_PrioritizedList ==
    \A k \in Kitchens :
        LET list == SortedOrders(view[k]) IN
        \A i \in 1..Len(list), j \in 1..Len(list) :
            i < j =>
                /\ list[j].status = "BILL_REQUESTED" => list[i].status = "BILL_REQUESTED"
                /\ (list[i].status = "BILL_REQUESTED") = (list[j].status = "BILL_REQUESTED")
                       => list[i].createdAt <= list[j].createdAt

----------------------------------------------------------------------------
(* Claims about the start of the server and its document store *)

\* a step in which a suspended handler resumed and answered
Resumed == Len(inflight') < Len(inflight)

\* C13: when the shadow write of POST /orders, PATCH /orders/:id or POST
\* /bills fails, the call still answers success and the in-memory store holds
\* the new or updated entity: the failure neither fails the call nor rolls
\* the in-memory write back.
C13_ShadowFailureKeepsWrite ==
    [][Resumed /\ last'.shadow = "failed" =>
          /\ last'.code = 200
          /\ last'.resp.success = TRUE
          /\ orders' = orders
          /\ bills' = bills
          /\ last'.op = "POST /orders" => HasId(orders', last'.resp.orderId)
          /\ last'.op = "PATCH /orders/:id" =>
                /\ last'.resp.order.id = last'.req.id
                /\ \E i \in 1..Len(orders') : orders'[i] = last'.resp.order
          /\ last'.op = "POST /bills" =>
                \E j \in 1..Len(bills') : bills'[j] = last'.resp.bill]_vars

\* C13 witness: the store is in use and every shadow write so far failed (the
\* collections are empty); the array holds an order that was created and set
\* to BILL_REQUESTED, a bill was made, and the call that just answered 200
\* was one whose shadow write failed.
C13_Witness ==
    /\ UseMongo(boot)
    /\ inflight = <<>>
    /\ mongo = EmptyStore
    /\ last.op # "none"
    /\ last.shadow = "failed"
    /\ last.code = 200
    /\ Len(orders) >= 1
    /\ orders[1].status = "BILL_REQUESTED"
    /\ Len(bills) >= 1

\* C14: GET /orders/:id answers the stored order for every id the order
\* store holds and 404 only for an id of no stored order, in every
\* configuration, also with the document store in use and the shadow write of
\* that order failed.
C14_GetFindsStoredOrder ==
    [][last'.op = "GET /orders/:id" /\ last' # last =>
          /\ HasId(orders, last'.req.id) =>
                /\ last'.code = 200
                /\ last'.resp.id = last'.req.id
          /\ last'.code = 404 => ~HasId(orders, last'.req.id)]_vars

\* C17: when the document store is required (USE_MONGO=true with a URI) and
\* the connection was not established, be it that the attempt timed out or
\* that connect failed, the process exits and the server never listens in
\* in-memory mode.
C17_NoListeningWithoutStore ==
    boot.env = "on" /\ boot.phase = "listening" => UseMongo(boot)

----------------------------------------------------------------------------
(* CustomerApp against the in-memory server.  cust holds currentView,        *)
(* orderId and pollingStatus; polling says that the interval of the order    *)
(* status effect exists; checks are the calls of that effect's `check` in    *)
(* progress, each with the orderId and pollingStatus of the render its       *)
(* effect ran in, the `active` flag of that effect, and its place ("fetch":  *)
(* at `await fetch`, "json": at `await res.json()`); timers are the          *)
(* setTimeout(..., 3000) callbacks not yet run; menuIv says that the menu    *)
(* effect's interval exists and menuFetch that a fetchMenu is in progress.   *)
(* A render and the effects it re-runs are one step with the setState calls  *)
(* that caused it.  A check and a timer also carry `stale`, which the code   *)
(* does not have: it records that since the check or the poll behind the     *)
(* timer started, the view left orderPlaced or the orderId changed.          *)
(* tableNumber and customerName are the strings of the welcome form, cart    *)
(* is the cart and activeOrders the ids kept under activeOrders:<phone>.     *)
(* The customer is signed in (isAuthenticated), as Index.tsx has it.         *)

\* the render with currentView v, orderId o and pollingStatus p, and the
\* effects whose dependencies changed: the status effect's cleanup (active =
\* false, clearInterval(iv)) and its body (return unless orderPlaced with an
\* orderId; check(); setInterval(check, 5000)), the menu effect's cleanup and
\* body (fetchMenu(); the interval only in the menu view)
Render(c, v, o, p) ==
    LET statusDeps == <<v, o, p>> # <<c.view, c.orderId, c.pollingStatus>>
        left == c.view = "orderPlaced" /\ c.orderId # NoOrder /\ (v # "orderPlaced" \/ o # c.orderId)
        tracking == v = "orderPlaced" /\ o # NoOrder
        old == {[x EXCEPT !.active = IF statusDeps THEN FALSE ELSE x.active,
                          !.stale = x.stale \/ left] : x \in c.checks}
    IN  [view |-> v, orderId |-> o, pollingStatus |-> p,
         polling |-> IF statusDeps THEN tracking ELSE c.polling,
         checks |-> IF statusDeps /\ tracking
                    THEN old \cup {[orderId |-> o, pollingStatus |-> p, active |-> TRUE,
                                    stale |-> FALSE, at |-> "fetch", status |-> ""]}
                    ELSE old,
         timers |-> {[t EXCEPT !.stale = t.stale \/ left] : t \in c.timers},
         menuIv |-> v = "menu",
         menuFetch |-> c.menuFetch \/ v # c.view,
         tableNumber |-> c.tableNumber, customerName |-> c.customerName,
         cart |-> c.cart, activeOrders |-> c.activeOrders]

\* the customer's visible state
CustState == <<cust.view, cust.orderId, cust.pollingStatus>>

\* a render that starts a check finds room for it
Room(c) == Cardinality(c.checks) <= MaxChecks

\* the value of a decimal digit, -1 for any other character
Digit(ch) ==
    CASE ch = "0" -> 0 [] ch = "1" -> 1 [] ch = "2" -> 2 [] ch = "3" -> 3
      [] ch = "4" -> 4 [] ch = "5" -> 5 [] ch = "6" -> 6 [] ch = "7" -> 7
      [] ch = "8" -> 8 [] ch = "9" -> 9 [] OTHER -> -1

\* the digits a string starts with
RECURSIVE LeadingDigits(_)
LeadingDigits(s) ==
    IF s = <<>> \/ Digit(Head(s)) < 0 THEN <<>>
    ELSE <<Digit(Head(s))>> \o LeadingDigits(Tail(s))

RECURSIVE DecimalValue(_, _)
DecimalValue(ds, acc) ==
    IF ds = <<>> THEN acc ELSE DecimalValue(Tail(ds), 10 * acc + Head(ds))

\* parseInt(s): an optional sign, then the longest run of digits; NaN (None)
\* when no digit follows
ParseInt(s) ==
    LET signed == s # <<>> /\ Head(s) \in {"-", "+"}
        ds == LeadingDigits(IF signed THEN Tail(s) ELSE s)
    IN  IF ds = <<>> THEN None
        ELSE Some(IF signed /\ Head(s) = "-" THEN 0 - DecimalValue(ds, 0)
                  ELSE DecimalValue(ds, 0))

\* handleStartOrder's two tests: a comparison with NaN is false
StartAccepted(table, name) ==
    LET n == ParseInt(table)
        below == n # None /\ n[1] < 1
        above == n # None /\ n[1] > 40
    IN  /\ ~(table = <<>> \/ name = <<>>)
        /\ ~(below \/ above)

\* the menu's items
Chai == [id |-> "tea-1", name |-> "Masala Chai", price |-> Some(30)]
Samosa == [id |-> "snack-1", name |-> "Samosa", price |-> Some(20)]
MenuItems == {Chai, Samosa}

\* { ...item, quantity: qty }
CartItem(item, qty) ==
    [id |-> item.id, name |-> item.name, price |-> item.price, quantity |-> Some(qty)]

\* cart.find((cartItem) => cartItem.id === item.id)
InCart(cart, id) == \E i \in 1..Len(cart) : cart[i].id = id

\* the cart addToCart and addToCartWithQty set: the entry's quantity raised
\* by qty, or the item appended with quantity qty
AddToCart(cart, item, qty) ==
    IF InCart(cart, item.id)
    THEN [i \in 1..Len(cart) |->
             IF cart[i].id = item.id
             THEN [cart[i] EXCEPT !.quantity = Some(cart[i].quantity[1] + qty)]
             ELSE cart[i]]
    ELSE Append(cart, CartItem(item, qty))

\* Math.max(0, item.quantity + delta) for the entry id
Adjusted(cart, id, delta) ==
    [i \in 1..Len(cart) |->
        IF cart[i].id = id
        THEN [cart[i] EXCEPT !.quantity =
                 Some(IF cart[i].quantity[1] + delta < 0 THEN 0
                      ELSE cart[i].quantity[1] + delta)]
        ELSE cart[i]]

\* updateQuantity that keeps the entries whose quantity reached 0
UpdateQuantityKeepsZero(cart, id, delta) == Adjusted(cart, id, delta)

\* updateQuantity: the adjusted cart without the entries of quantity 0
UpdateQuantity(cart, id, delta) ==
    LET Positive(it) == it.quantity[1] > 0
    IN  SelectSeq(Adjusted(cart, id, delta), Positive)

\* removeFromCart: cart.filter((item) => item.id !== id)
RemoveFromCart(cart, id) ==
    LET Other(it) == it.id # id
    IN  SelectSeq(cart, Other)

\* getTotalAmount: cart.reduce((total, item) => total + item.price * item.quantity, 0)
RECURSIVE GetTotalAmount(_)
GetTotalAmount(cart) ==
    IF cart = <<>> THEN 0
    ELSE Head(cart).price[1] * Head(cart).quantity[1] + GetTotalAmount(Tail(cart))

\* handlePlaceOrder's orderData as the server parses it: JSON.stringify
\* writes the NaN of parseInt as null
OrderData(c, now) ==
    [tableNumber |-> ParseInt(c.tableNumber), customerName |-> Some(c.customerName),
     items |-> Arr(c.cart), totalAmount |-> Some(GetTotalAmount(c.cart)),
     status |-> Some("PENDING"), timestamp |-> Some(now)]

\* the table number input's onChange: setTableNumber(e.target.value)
CTypeTable(t) ==
    /\ cust.view = "welcome"
    /\ cust' = [cust EXCEPT !.tableNumber = t]
    /\ UNCHANGED <<orders, bills, clock, last, kitchen, billedFor, boot, mongo, inflight, browser>>

\* the name input's onChange: setCustomerName(e.target.value)
CTypeName(n) ==
    /\ cust.view = "welcome"
    /\ cust' = [cust EXCEPT !.customerName = n]
    /\ UNCHANGED <<orders, bills, clock, last, kitchen, billedFor, boot, mongo, inflight, browser>>

\* handleStartOrder, accepting: setCurrentView("menu")
CStart ==
    /\ cust.view = "welcome"
    /\ StartAccepted(cust.tableNumber, cust.customerName)
    /\ cust' = Render(cust, "menu", cust.orderId, cust.pollingStatus)
    /\ Room(cust')
    /\ UNCHANGED <<orders, bills, clock, last, kitchen, billedFor, boot, mongo, inflight, browser>>

\* the cart button: setCurrentView("cart")
CCart ==
    /\ cust.view = "menu"
    /\ cust' = Render(cust, "cart", cust.orderId, cust.pollingStatus)
    /\ UNCHANGED <<orders, bills, clock, last, kitchen, billedFor, boot, mongo, inflight, browser>>

\* the menu's Add button and its + button: addToCart(item)
CAddToCart(item) ==
    /\ cust.view = "menu"
    /\ \A i \in 1..Len(cust.cart) :
          cust.cart[i].id = item.id => cust.cart[i].quantity[1] < MaxQty
    /\ cust' = [cust EXCEPT !.cart = AddToCart(@, item, 1)]
    /\ UNCHANGED <<orders, bills, clock, last, kitchen, billedFor, boot, mongo, inflight, browser>>

\* addToCartWithQty(item, qty): nothing but a toast when qty <= 0
CAddToCartWithQty(item, qty) ==
    /\ cust.view = "menu"
    /\ \A i \in 1..Len(cust.cart) :
          cust.cart[i].id = item.id => cust.cart[i].quantity[1] + qty <= MaxQty
    /\ cust' = [cust EXCEPT !.cart = IF qty <= 0 THEN @ ELSE AddToCart(@, item, qty)]
    /\ UNCHANGED <<orders, bills, clock, last, kitchen, billedFor, boot, mongo, inflight, browser>>

\* the - and + buttons of an entry, in the menu and in the cart:
\* updateQuantity(id, -1) and updateQuantity(id, 1)
CUpdateQuantity(id, delta) ==
    /\ cust.view \in {"menu", "cart"}
    /\ InCart(cust.cart, id)
    /\ \A i \in 1..Len(cust.cart) :
          cust.cart[i].id = id => cust.cart[i].quantity[1] + delta <= MaxQty
    /\ cust' = [cust EXCEPT !.cart = UpdateQuantity(@, id, delta)]
    /\ UNCHANGED <<orders, bills, clock, last, kitchen, billedFor, boot, mongo, inflight, browser>>

\* the X button of a cart entry: removeFromCart(id)
CRemoveFromCart(id) ==
    /\ cust.view = "cart"
    /\ InCart(cust.cart, id)
    /\ cust' = [cust EXCEPT !.cart = RemoveFromCart(@, id)]
    /\ UNCHANGED <<orders, bills, clock, last, kitchen, billedFor, boot, mongo, inflight, browser>>

\* the cart view's back and Browse Menu buttons: setCurrentView("menu")
CMenu ==
    /\ cust.view = "cart"
    /\ cust' = Render(cust, "menu", cust.orderId, cust.pollingStatus)
    /\ UNCHANGED <<orders, bills, clock, last, kitchen, billedFor, boot, mongo, inflight, browser>>

\* handlePlaceOrder with a cart that is not empty: the POST answered (net)
\* or failed, then placeOrderFallback; either way setOrderId, the id added
\* to the active orders, the order placed view and pollingStatus PENDING
CPlaceOrder(net) ==
    LET r == PostOrdersResult(orders, OrderData(cust, clock), clock) IN
    /\ cust.view = "cart"
    /\ Len(cust.cart) # 0
    /\ Len(orders) < MaxOrders
    /\ orders' = IF net THEN r.orders ELSE orders
    /\ cust' = Render([cust EXCEPT !.activeOrders = @ \cup {OrdId(clock)}],
                      "orderPlaced", OrdId(clock), Some("PENDING"))
    /\ Room(cust')
    /\ UNCHANGED <<bills, clock, last, kitchen, billedFor, boot, mongo, inflight, browser>>

\* the Start New Order button of the order placed view
CStartNewOrder ==
    /\ cust.view = "orderPlaced"
    /\ cust' = Render([cust EXCEPT !.cart = <<>>, !.tableNumber = <<>>,
                                   !.customerName = <<>>],
                      "welcome", cust.orderId, cust.pollingStatus)
    /\ UNCHANGED <<orders, bills, clock, last, kitchen, billedFor, boot, mongo, inflight, browser>>

\* setInterval(check, 5000) fires: check() up to its await fetch
CPollTick ==
    /\ cust.polling
    /\ Cardinality(cust.checks) < MaxChecks
    /\ cust' = [cust EXCEPT !.checks = @ \cup
                   {[orderId |-> cust.orderId, pollingStatus |-> cust.pollingStatus,
                     active |-> TRUE, stale |-> FALSE, at |-> "fetch", status |-> ""]}]
    /\ UNCHANGED <<orders, bills, clock, last, kitchen, billedFor, boot, mongo, inflight, browser>>

\* check after await fetch(`${API}/orders/${orderId}`): the fetch threw, or
\* `if (!active) return`, or res.ok is false, or it goes on to res.json()
CFetchDone(x, net) ==
    LET r == GetOrderResult(boot, mongo.orders, orders, x.orderId, TRUE) IN
    /\ x \in cust.checks
    /\ x.at = "fetch"
    /\ cust' = [cust EXCEPT !.checks =
                   IF net /\ x.active /\ r.code = 200
                   THEN (@ \ {x}) \cup {[x EXCEPT !.at = "json", !.status = r.resp.status]}
                   ELSE @ \ {x}]
    /\ UNCHANGED <<orders, bills, clock, last, kitchen, billedFor, boot, mongo, inflight, browser>>

\* check after await res.json(): if the status differs from the effect's
\* pollingStatus, setPollingStatus(order.status) and, for COMPLETED, the
\* setTimeout of the reset
CJsonDone(x) ==
    /\ x \in cust.checks
    /\ x.at = "json"
    /\ LET c1 == [cust EXCEPT !.checks = @ \ {x}]
           c2 == [c1 EXCEPT !.timers =
                     IF x.status = "COMPLETED"
                     THEN @ \cup {[orderId |-> x.orderId, stale |-> x.stale]}
                     ELSE @]
       IN  /\ cust' = IF Some(x.status) # x.pollingStatus
                      THEN Render(c2, cust.view, cust.orderId, Some(x.status))
                      ELSE c1
           /\ Room(cust')
    /\ UNCHANGED <<orders, bills, clock, last, kitchen, billedFor, boot, mongo, inflight, browser>>

\* the setTimeout callback: setCart([]), setTableNumber(""), setCustomerName(""),
\* setOrderId(""), setCurrentView("welcome"), setPollingStatus(null), and the
\* id of the order its poll tracked removed from the active orders
CTimerFires(t) ==
    /\ t \in cust.timers
    /\ cust' = Render([cust EXCEPT !.timers = @ \ {t}, !.cart = <<>>,
                                   !.tableNumber = <<>>, !.customerName = <<>>,
                                   !.activeOrders = @ \ {t.orderId}],
                      "welcome", NoOrder, None)
    /\ UNCHANGED <<orders, bills, clock, last, kitchen, billedFor, boot, mongo, inflight, browser>>

\* window.setInterval(fetchMenu, 10000) fires
CMenuTick ==
    /\ cust.menuIv
    /\ ~cust.menuFetch
    /\ cust' = [cust EXCEPT !.menuFetch = TRUE]
    /\ UNCHANGED <<orders, bills, clock, last, kitchen, billedFor, boot, mongo, inflight, browser>>

\* fetchMenu returns
CMenuDone ==
    /\ cust.menuFetch
    /\ cust' = [cust EXCEPT !.menuFetch = FALSE]
    /\ UNCHANGED <<orders, bills, clock, last, kitchen, billedFor, boot, mongo, inflight, browser>>

\* the statuses the kitchen sets while the customer watches
CustStatuses == {Some("PREPARING"), Some("COMPLETED")}

\* what this customer types and orders
AnnTable == <<"5">>
AnnName == <<"A", "n", "n">>

NextCustomer ==
    \/ Tick
    \/ CTypeTable(AnnTable)
    \/ CTypeName(AnnName)
    \/ CStart
    \/ cust.cart = <<>> /\ CAddToCart(Chai)
    \/ CCart
    \/ \E net \in BOOLEAN : CPlaceOrder(net)
    \/ CStartNewOrder
    \/ CPollTick
    \/ \E x \in cust.checks, net \in BOOLEAN : CFetchDone(x, net)
    \/ \E x \in cust.checks : CJsonDone(x)
    \/ \E t \in cust.timers : CTimerFires(t)
    \/ CMenuTick
    \/ CMenuDone
    \/ \E i \in 1..MaxOrders, status \in CustStatuses :
          i <= Len(orders) /\ PatchOrder(orders[i].id, status)

SpecCustomer == Init /\ [][NextCustomer]_vars

\* a step in which the check x returned from its await res.json(), or the
\* timer t ran
Ends(x) ==
    /\ x.at = "json"
    /\ ~\E y \in cust'.checks :
          /\ y.at = "json"
          /\ y.orderId = x.orderId
          /\ y.pollingStatus = x.pollingStatus
          /\ y.status = x.status

Runs(t) == ~\E u \in cust'.timers : u.orderId = t.orderId

\* C16: once the order status view is torn down (the view left orderPlaced
\* or the tracked orderId changed), its poll timer is cleared and no poll
\* started before the teardown changes the customer's state afterwards; and
\* the periodic menu poll exists only in the menu view.
C16_NoPollAfterTeardown ==
    [][/\ cust'.polling => cust'.view = "orderPlaced" /\ cust'.orderId # NoOrder
       /\ cust'.menuIv => cust'.view = "menu"
       /\ \A x \in cust.checks : x.stale /\ Ends(x) => CustState' = CustState
       /\ \A t \in cust.timers : t.stale /\ Runs(t) => CustState' = CustState]_vars

----------------------------------------------------------------------------
(* GET /reports/daily, the part that sums the revenue *)

DayMs == 24 * 3600 * 1000

\* new Date(date + "T00:00:00").getTime() .. new Date(date + "T23:59:59").getTime()
DayStart(date) == date * DayMs
DayEnd(date) == DayStart(date) + DayMs - 1000

\* bills.filter((b) => b.createdAt >= start && b.createdAt <= end)
DayBills(bs, date) ==
    SelectSeq(bs, LAMBDA b : b.createdAt >= DayStart(date) /\ b.createdAt <= DayEnd(date))

RECURSIVE SumTotals(_)
SumTotals(bs) == IF bs = <<>> THEN 0 ELSE Head(bs).total + SumTotals(Tail(bs))

\* dayBills.reduce((s, b) => s + (b.total || 0), 0)
TotalRevenue(bs, date) == SumTotals(DayBills(bs, date))

\* the date of now
Today == clock \div DayMs

----------------------------------------------------------------------------
(* Claims about generateBill, the dashboard's generateBillForOrder *)

\* the bills made by the Generate Bill button of the order at position i
BillsFor(i) == {j \in 1..Len(bills) : billedFor[j] = i}

\* a step in which slot s of dashboard k starts a generateBillForOrder call
StartsBill(k, s) == task[k][s] = Idle /\ task'[k][s].op = "bill"

\* C3: generateBill is idempotent per order: once a bill has been generated
\* for an order and the order is COMPLETED, another generateBill for that
\* order creates no second bill and leaves the daily report's totalRevenue
\* unchanged.
C3_SecondBillIdempotent ==
    [][\A k \in Kitchens, s \in Slots :
          /\ StartsBill(k, s)
          /\ task'[k][s].idx <= Len(orders)
          /\ orders[task'[k][s].idx].status = "COMPLETED"
          /\ BillsFor(task'[k][s].idx) # {}
          => /\ bills' = bills
             /\ TotalRevenue(bills', Today) = TotalRevenue(bills, Today)]_vars

\* a generateBillForOrder call whose POST /bills was answered 200
Posted(k, s, i) ==
    /\ task[k][s].op = "bill"
    /\ task[k][s].idx = i
    /\ task[k][s].success

\* C4: two concurrent generateBill calls for the same READY order leave
\* exactly one Bill record for it (and complete the order once): whenever two
\* calls for the same order have both had their POST /bills answered, be they
\* still before their PATCH or returned, one bill exists for the order.
C4_OneBillForTwoCalls ==
    \A k \in Kitchens, s1 \in Slots, s2 \in Slots, i \in 1..Len(orders) :
        /\ s1 # s2
        /\ Posted(k, s1, i)
        /\ Posted(k, s2, i)
        /\ orders[i].status \in {"READY", "COMPLETED"}
        => Cardinality(BillsFor(i)) = 1

\* C5: whenever generateBill reports success for an order, a Bill was
\* recorded and that order's status in the store is COMPLETED.
C5_SuccessMeansCompleted ==
    \A k \in Kitchens, s \in Slots :
        /\ task[k][s].op = "bill"
        /\ task[k][s].step = "returned"
        /\ task[k][s].success
        => /\ BillsFor(task[k][s].idx) # {}
           /\ orders[task[k][s].idx].status = "COMPLETED"

\* C6: generateBill for an order that is not in the store, or that is
\* already COMPLETED, fails and records no Bill.
C6_NoBillForCompleted ==
    [][\A k \in Kitchens, s \in Slots :
          /\ StartsBill(k, s)
          /\ \/ task'[k][s].idx > Len(orders)
             \/ orders[task'[k][s].idx].status = "COMPLETED"
          => /\ bills' = bills
             /\ ~task'[k][s].success]_vars

----------------------------------------------------------------------------
(* The dashboard's action buttons and the store *)

\* the position of a status in the lifecycle
Rank(status) ==
    CASE status = "PENDING" -> 0
      [] status = "PREPARING" -> 1
      [] status = "READY" -> 2
      [] status = "BILL_REQUESTED" -> 3
      [] status = "COMPLETED" -> 4
      [] OTHER -> 0

\* C24: when status PATCHes are issued only through the dashboard's action
\* buttons, each offered according to the status the dashboard displays, no
\* step moves an order's status in the store backward in the lifecycle.
C24_NeverBackward ==
    [][\A i \in 1..Len(orders) :
          Rank(orders'[i].status) >= Rank(orders[i].status)]_vars

\* the statuses dashboard k shows for the order id
Shown(v, id) == {v[i].status : i \in {j \in 1..Len(v) : v[j].id = id}}

\* C26: the status a dashboard displays for an order changes after an action
\* button is pressed only if the server applied the PATCH: when
\* updateOrderStatus returns without success, the handler leaves the
\* displayed status of the order as it was.
C26_DisplayFollowsPatch ==
    [][\A k \in Kitchens, s \in Slots :
          /\ task[k][s].op = "status"
          /\ task'[k][s] = Idle
          /\ ~task[k][s].returned.success
          => Shown(view'[k], task[k][s].id) = Shown(view[k], task[k][s].id)]_vars

\* C27: a failed poll changes nothing on the screen: when the GET /orders of
\* a loadOrders call failed, the dashboard's order list after the call is the
\* list before it.
C27_FailedPollKeepsList ==
    [][\A k \in Kitchens :
          /\ poll[k] # Idle
          /\ poll'[k] = Idle
          /\ ~poll[k].ok
          => view'[k] = view[k]]_vars

----------------------------------------------------------------------------
(* The customer's session: the order placed, the delayed reset *)

\* the session as the customer sees it: cart, form and view
Session == <<cust.cart, cust.tableNumber, cust.customerName, cust.view>>

\* C25: the delayed reset scheduled when COMPLETED is observed affects only
\* the session of the completed order: when the customer has left the order
\* view and started a new order (table number and name entered, the menu or
\* the cart open) before the delay expires, the timer's callback leaves the
\* new session's cart, table number, customer name and view as they are.
C25_ResetOnlyItsSession ==
    [][\A t \in cust.timers :
          /\ t.stale
          /\ Runs(t)
          /\ cust.view \in {"menu", "cart"}
          => Session' = Session]_vars

\* C28: the customer app reports an order as placed, and records its id among
\* the active orders, only for an order that exists in the order store.
C28_PlacedMeansStored ==
    /\ cust.view = "orderPlaced" /\ cust.orderId # NoOrder => HasId(orders, cust.orderId)
    /\ \A id \in cust.activeOrders : HasId(orders, id)

----------------------------------------------------------------------------
(* The welcome form and the cart, up to the order placed *)

\* what an <input type="number"> can hand to onChange: "" or a number
\* written in decimal; here "", "0", "5", "40", "41", "7.5" and ".5"
TableInputs ==
    {<<>>, <<"0">>, <<"5">>, <<"4", "0">>, <<"4", "1">>, <<"7", ".", "5">>, <<".", "5">>}

Names == {<<>>, AnnName}

\* the quantities addToCartWithQty is called with
CartQtys == 0..2

NextCart ==
    \/ \E t \in TableInputs : CTypeTable(t)
    \/ \E n \in Names : CTypeName(n)
    \/ CStart
    \/ \E item \in MenuItems : CAddToCart(item)
    \/ \E item \in MenuItems, qty \in CartQtys : CAddToCartWithQty(item, qty)
    \/ \E item \in MenuItems, delta \in {-1, 1} : CUpdateQuantity(item.id, delta)
    \/ \E item \in MenuItems : CRemoveFromCart(item.id)
    \/ CCart
    \/ CMenu
    \/ orders = <<>> /\ \E net \in BOOLEAN : CPlaceOrder(net)
    \/ CStartNewOrder

SpecCart == Init /\ [][NextCart]_vars

\* C23: every order the customer app submits carries a tableNumber between 1
\* and 40: whenever the view is menu or cart, the table number entered, as
\* handlePlaceOrder reads it with parseInt, is an integer in 1..40.
C23_TableInRange ==
    cust.view \in {"menu", "cart"} =>
        /\ ParseInt(cust.tableNumber) # None
        /\ ParseInt(cust.tableNumber)[1] \in 1..40

\* every quantity is at least 1 and no two entries share an item id
CartOk(cart) ==
    /\ \A i \in 1..Len(cart) : cart[i].quantity # None /\ cart[i].quantity[1] >= 1
    /\ \A i, j \in 1..Len(cart) : i # j => cart[i].id # cart[j].id

\* C30: after any sequence of addToCart, addToCartWithQty, updateQuantity and
\* removeFromCart every cart entry has a quantity of at least 1 and no two
\* entries share an item id; hence the orderData of every handlePlaceOrder
\* that goes on to submit, and the order stored for it, has a non-empty item
\* list in which every quantity is at least 1.
C30_CartInvariant ==
    [][/\ CartOk(cust.cart)
       /\ CartOk(cust'.cart)
       /\ cust.view = "cart" /\ cust'.view = "orderPlaced" =>
             /\ OrderData(cust, clock).items.elems # <<>>
             /\ CartOk(OrderData(cust, clock).items.elems)
       /\ Len(orders') > Len(orders) =>
             /\ LastOrder(orders').items # <<>>
             /\ CartOk(LastOrder(orders').items)]_vars

\* an order of two entries is stored, one of them with the largest quantity,
\* and the customer, in a later session, looks at a cart of one entry
C30_Witness ==
    /\ Len(orders) >= 1
    /\ Len(orders[1].items) = 2
    /\ \E i \in 1..2 : orders[1].items[i].quantity = Some(MaxQty)
    /\ cust.view = "cart"
    /\ Len(cust.cart) = 1

----------------------------------------------------------------------------
(* The mirrored server across a restart of its process.  The arrays are      *)
(* module constants (const orders = [], const bills = []) and nothing reads  *)
(* the collections back into them: a new process starts with empty arrays,   *)
(* whatever the document store holds.                                        *)

\* the process ends and node starts it again with the same environment; the
\* handlers that were suspended are gone with it
Restart ==
    /\ boot.phase # "starting"
    /\ orders' = <<>>
    /\ bills' = <<>>
    /\ inflight' = <<>>
    /\ boot' = StartingServer(boot.env)
    /\ UNCHANGED <<clock, last, kitchen, billedFor, mongo, cust, browser>>

\* the ids a client can hold: of the array's orders and of the documents
KnownIds ==
    {orders[i].id : i \in 1..Len(orders)} \cup {mongo.orders[i].id : i \in 1..Len(mongo.orders)}

NextRestart ==
    \/ MirrorTick
    \/ ConnectResolves
    \/ ConnectRejects
    \/ GraceTimeout
    \/ StartListening
    \/ Restart
    \/ \E body \in MirrorOrderBodies : SrvPostOrders(body)
    \/ \E id \in KnownIds, status \in MirrorStatuses : SrvPatchOrder(id, status)
    \/ \E j \in 1..MaxInFlight, ok \in BOOLEAN : ShadowWriteDone(j, ok)
    \/ \E id \in KnownIds, dbOk \in BOOLEAN : SrvGetOrder(id, dbOk)
    \/ \E k \in Kitchens, net \in BOOLEAN, dbOk \in BOOLEAN : KLoadSrv(k, net, dbOk)
    \/ \E k \in Kitchens : KLoadDone(k)

SpecRestart == InitMirror /\ [][NextRestart]_vars

\* GET /orders/:id or GET /orders, the store reachable, returns the order id
Returned(id) ==
    \/ GetOrderResult(boot, mongo.orders, orders, id, TRUE).code = 200
    \/ HasId(GetOrdersResult(boot, mongo.orders, orders, TRUE, clock), id)

\* C29: with the mirror store enabled the read and write paths agree on which
\* orders exist: a PATCH /orders/:id for the id of an order that GET /orders
\* or GET /orders/:id returns is not answered 404, also after a restart of
\* the process, when the orders survive only in the mirror.
C29_ReadableMeansPatchable ==
    [][/\ UseMongo(boot)
       /\ last' # last
       /\ last'.op = "PATCH /orders/:id"
       /\ Returned(last'.req.id)
       => last'.code # 404]_vars

----------------------------------------------------------------------------
(* The tabs of one browser and the markers in localStorage.  A kitchen tab   *)
(* shows the content of one of its Tabs; MenuManagement and DailyReport are  *)
(* mounted while their tab is selected.  MenuManagement's handlers await     *)
(* their request and write menu-updated after it; the Generate Bill button   *)
(* writes reports-updated (KBillFinish).  The browser dispatches a storage   *)
(* event to every other tab, where the listeners registered at that moment   *)
(* see it: CustomerApp's, registered on mount, and DailyReport's, registered *)
(* while it is mounted.  The menu itself is the catalog's, outside of this   *)
(* model: a handler's request and the content of a fetched menu or report    *)
(* are not followed, only that the request was made and the fetch started.   *)

\* the Orders, Menu and Reports triggers of a dashboard's TabsList
KSelectTab(k, v) ==
    /\ browser.tab[k] # v
    /\ browser' = [browser EXCEPT !.tab[k] = v]
    /\ UNCHANGED <<orders, bills, clock, last, kitchen, billedFor, boot, mongo, inflight, cust>>

\* handleSave, handleDelete or toggleAvailability up to the answer of
\* saveMenuItem or deleteMenuItem, which never throw
MHandlerStarts(k, op, id) ==
    /\ browser.tab[k] = "menu"
    /\ browser.handler[k] = Idle
    /\ browser' = [browser EXCEPT !.handler[k] = [op |-> op, id |-> id]]
    /\ UNCHANGED <<orders, bills, clock, last, kitchen, billedFor, boot, mongo, inflight, cust>>

MHandleSave(k, id) == MHandlerStarts(k, "save", id)
MHandleDelete(k, id) == MHandlerStarts(k, "delete", id)
MToggleAvailability(k, id) == MHandlerStarts(k, "toggle", id)

\* the three handlers after their await: setMenuItems and
\* localStorage.setItem("menu-updated", Date.now().toString())
MHandlerDone(k) ==
    /\ browser.handler[k] # Idle
    /\ browser' = SetItem([browser EXCEPT !.handler[k] = Idle], k, "menu-updated", clock)
    /\ UNCHANGED <<orders, bills, clock, last, kitchen, billedFor, boot, mongo, inflight, cust>>

\* what the listeners of the tab t start when the storage event of key
\* reaches it: CustomerApp's onStorage fetches /menu for menu-updated;
\* DailyReport's onStorage calls loadReport for reports-updated
OnStorage(b, t, key) ==
    IF t = CustomerTab
    THEN IF key = "menu-updated" THEN {[tab |-> t, what |-> "menu"]} ELSE {}
    ELSE IF b.tab[t] = "reports" /\ key = "reports-updated"
         THEN {[tab |-> t, what |-> "report"]}
         ELSE {}

\* the browser dispatches the storage event e to every tab but its writer
StorageEvent(e) ==
    /\ e \in browser.events
    /\ browser' = [browser EXCEPT
                      !.events = @ \ {e},
                      !.fetches = @ \cup UNION {OnStorage(browser, t, e.key) :
                                                   t \in AllTabs \ {e.from}}]
    /\ UNCHANGED <<orders, bills, clock, last, kitchen, billedFor, boot, mongo, inflight, cust>>

\* a fetch started by a listener returns: setMenu(data) or setReport(data)
FetchReturns(f) ==
    /\ f \in browser.fetches
    /\ browser' = [browser EXCEPT !.fetches = @ \ {f}]
    /\ UNCHANGED <<orders, bills, clock, last, kitchen, billedFor, boot, mongo, inflight, cust>>

\* the first dashboard takes the orders and edits the menu; the second one
\* looks at the menu and the report
NextTabs ==
    \/ Tick
    \/ \E k \in Kitchens, net \in BOOLEAN : KClickBill(k, 1, 1, net)
    \/ \E k \in Kitchens : KBillPatch(k, 1, TRUE)
    \/ \E k \in Kitchens : KBillFinish(k, 1)
    \/ \E k \in Kitchens, v \in {"orders", "menu"} : KSelectTab(k, v)
    \/ \E k \in KitchenTabs \ Kitchens, v \in {"menu", "reports"} : KSelectTab(k, v)
    \/ \E k \in Kitchens, id \in CatalogIds : MHandleSave(k, id)
    \/ \E k \in Kitchens, id \in CatalogIds : MHandleDelete(k, id)
    \/ \E k \in Kitchens, id \in CatalogIds : MToggleAvailability(k, id)
    \/ \E k \in Kitchens : MHandlerDone(k)
    \/ \E e \in browser.events : StorageEvent(e)
    \/ \E f \in browser.fetches : FetchReturns(f)
    \/ CTypeTable(AnnTable)
    \/ CTypeName(AnnName)
    \/ CStart
    \/ CCart
    \/ CMenu

\* a dashboard that shows Ann's order, READY in the store
ReadyOrder == [NewOrder(AnnBody, 0) EXCEPT !.status = "READY"]

InitTabs ==
    /\ orders = <<ReadyOrder>>
    /\ bills = <<>>
    /\ clock = 0
    /\ last = [op |-> "none"]
    /\ view = [k \in Kitchens |-> <<ReadyOrder>>]
    /\ poll = [k \in Kitchens |-> Idle]
    /\ task = [k \in Kitchens |-> [s \in Slots |-> Idle]]
    /\ billedFor = <<>>
    /\ boot = InMemoryServer
    /\ mongo = EmptyStore
    /\ inflight = <<>>
    /\ cust = Welcome
    /\ browser = Opened

SpecTabs == InitTabs /\ [][NextTabs]_vars

\* a menu handler of tab k returns in this step
MenuHandlerReturns(k) == browser.handler[k] # Idle /\ browser'.handler[k] = Idle

\* the Generate Bill handler of dashboard k in slot s, whose bill was made,
\* returns in this step
BillHandlerReturns(k, s) ==
    /\ task[k][s].op = "bill"
    /\ task[k][s].step = "returned"
    /\ task[k][s].success
    /\ task'[k][s] = Idle

\* every menu mutation and every bill generation writes its marker
MarkersWritten ==
    /\ \A k \in KitchenTabs :
          MenuHandlerReturns(k) => browser'.storage["menu-updated"] = Some(clock)
    /\ \A k \in Kitchens, s \in Slots :
          BillHandlerReturns(k, s) => browser'.storage["reports-updated"] = Some(clock)

\* the storage event e is dispatched in this step
Dispatched(e) == e \in browser.events /\ e \notin browser'.events

\* what a marker is about, and the tabs that show it: the customer app shows
\* the menu, a dashboard the menu and the report
Subject(key) == IF key = "menu-updated" THEN "menu" ELSE "report"
Shows(t, what) == t \in KitchenTabs \/ what = "menu"

\* C22 as stated: every menu mutation made in a kitchen tab and every bill
\* generation writes the shared marker, and every other tab that observes the
\* marker refetches the menu or report immediately, independent of its poll
\* interval and of its current view.
C22_EveryTabRefetches ==
    [][/\ MarkersWritten
       /\ \A e \in browser.events, t \in AllTabs :
             /\ Dispatched(e)
             /\ t # e.from
             /\ Shows(t, Subject(e.key))
             => [tab |-> t, what |-> Subject(e.key)] \in browser'.fetches]_vars

\* C22 as amended: every menu mutation made in a kitchen tab and every bill
\* generation writes the shared marker; every customer tab that observes
\* menu-updated refetches the menu immediately, independent of its poll
\* interval and of its current view, and every kitchen tab that observes
\* reports-updated while its Reports tab is open refetches the report
\* immediately.
C22_ListenersRefetch ==
    [][/\ MarkersWritten
       /\ \A e \in browser.events :
             /\ Dispatched(e)
             /\ e.from # CustomerTab
             /\ e.key = "menu-updated"
             => [tab |-> CustomerTab, what |-> "menu"] \in browser'.fetches
       /\ \A e \in browser.events, t \in KitchenTabs :
             /\ Dispatched(e)
             /\ t # e.from
             /\ e.key = "reports-updated"
             /\ browser.tab[t] = "reports"
             => [tab |-> t, what |-> "report"] \in browser'.fetches]_vars

\* both markers were written again after the clock moved; the customer, in
\* the cart, where no menu interval runs, refetches the menu, and the second
\* dashboard, on its Reports tab, the report
C22_Witness ==
    /\ browser.storage["menu-updated"] = Some(MaxClock)
    /\ browser.storage["reports-updated"] = Some(MaxClock)
    /\ Len(bills) = MaxBills
    /\ cust.view = "cart"
    /\ ~cust.menuIv
    /\ [tab |-> CustomerTab, what |-> "menu"] \in browser.fetches
    /\ browser.tab["k2"] = "reports"
    /\ [tab |-> "k2", what |-> "report"] \in browser.fetches

-----------------------------------------------------------------------------
(* The customer's status view under fair polling *)

\* the statuses the kitchen sets while the customer waits
PollStatuses == {Some("PREPARING"), Some("READY")}

\* Ann orders from her phone, another customer posts an order of her own,
\* the kitchen moves the orders on, and Ann's status view polls
NextPoll ==
    \/ Tick
    \/ CTypeTable(AnnTable)
    \/ CTypeName(AnnName)
    \/ CStart
    \/ cust.cart = <<>> /\ CAddToCart(Chai)
    \/ CCart
    \/ CPlaceOrder(TRUE)
    \/ PostOrders(EveBody)
    \/ \E i \in 1..MaxOrders, status \in PollStatuses :
          i <= Len(orders) /\ PatchOrder(orders[i].id, status)
    \/ CPollTick
    \/ \E x \in cust.checks, net \in BOOLEAN : CFetchDone(x, net)
    \/ \E x \in cust.checks : CJsonDone(x)

\* the interval keeps firing, every await returns, and the fetch of a check
\* of the running effect, which may fail, does not fail forever
FairPoll ==
    /\ WF_vars(CPollTick)
    /\ WF_vars(\E x \in cust.checks, net \in BOOLEAN : CFetchDone(x, net))
    /\ WF_vars(\E x \in cust.checks : CJsonDone(x))
    /\ SF_vars(\E x \in cust.checks : x.active /\ CFetchDone(x, TRUE))

SpecPoll == Init /\ [][NextPoll]_vars /\ FairPoll

\* Ann is on the status view of the order she placed
OnStatusView == cust.view = "orderPlaced" /\ cust.orderId # NoOrder

\* the order Ann's POST created, the one for table 5, has status st
OwnOrderIs(st) ==
    \E i \in 1..Len(orders) : orders[i].tableNumber = Some(5) /\ orders[i].status = st

\* C21: if the status of the customer's order in the store stops changing
\* while the customer stays on that order's status view, and polls keep being
\* issued and eventually succeed, the displayed status equals the store's
\* status again and again: it is never different from it for ever.
C21_EventuallyShown ==
    \A st \in Lifecycle :
        <>[](OnStatusView /\ OwnOrderIs(st)) => []<>(cust.pollingStatus = Some(st))

=============================================================================
